---------------------------- MODULE Spec2Model ----------------------------
(***************************************************************************)
(* Model of src/analysis.py: the marketing-campaign analysis script.       *)
(*                                                                         *)
(* The script reads a CSV file into a table (load_and_prepare_data),       *)
(* derives aggregates from it (generate_comprehensive_analysis), prints a  *)
(* report and writes three charts (visualize_results), all driven by       *)
(* main(), which also handles the error cases and then holds the process   *)
(* open.                                                                   *)
(*                                                                         *)
(* Text is modelled as sequences of one-character strings so that parsing  *)
(* is computed, numbers are integers, and the results of divisions are     *)
(* exact rationals in lowest terms.  A Pearson coefficient r is held as    *)
(* its sign together with the exact rational r^2.                          *)
(***************************************************************************)
EXTENDS Integers, Sequences, FiniteSets

VARIABLES
    filepath,   \* the argument of main()
    exists,     \* whether filepath resolves to a readable file
    file,       \* the data lines of the file: a sequence of rows of text
    pc,         \* main()'s position
    bound,      \* the local names main() has bound so far: "df", "analysis"
    df,         \* the table returned by load_and_prepare_data
    analysis,   \* the dict returned by generate_comprehensive_analysis
    out,        \* the lines printed so far, as a sequence of messages
    written,    \* the image files written so far
    stages,     \* the stage steps begun so far, in order
    failed,     \* the stage step that raised, or "none"
    via,        \* how main() was left: "none", "return", "uncaught"
    wasHeld,    \* whether the hold loop of a successful run was entered
    exitStatus  \* the status the process ended with, or "running"

vars == <<filepath, exists, file, pc, bound, df, analysis, out, written,
          stages, failed, via, wasHeld, exitStatus>>

---------------------------------------------------------------------------
(* Bounds of the model. *)

\* The most data rows a modelled input file holds.
MaxRows == 2

---------------------------------------------------------------------------
(* Text. *)

Digits == <<"0", "1", "2", "3", "4", "5", "6", "7", "8", "9">>

IsDigit(c) == \E i \in 1..Len(Digits) : Digits[i] = c

DigitValue(c) == (CHOOSE i \in 1..Len(Digits) : Digits[i] = c) - 1

\* The characters of the modelled texts, in code-point order.
Alphabet == <<"+", "-", "/", "0", "1", "2", "3", "4", "5", "6", "7", "8", "9",
              "A", "E", "F", "G", "M", "N", "S", "W",
              "a", "b", "c", "e", "g", "i", "k", "l", "m", "n", "o", "x">>

CharRank(c) == CHOOSE i \in 1..Len(Alphabet) : Alphabet[i] = c

\* Python's str ordering: s < t.
RECURSIVE StrLess(_, _)
StrLess(s, t) ==
    IF t = <<>> THEN FALSE
    ELSE IF s = <<>> THEN TRUE
    ELSE IF Head(s) = Head(t) THEN StrLess(Tail(s), Tail(t))
    ELSE CharRank(Head(s)) < CharRank(Head(t))

\* The part of a numeric literal after its optional sign.
Unsigned(tok) ==
    IF Len(tok) > 0 /\ tok[1] \in {"-", "+"} THEN Tail(tok) ELSE tok

\* Whether a text parses as a number (integer literals are modelled).
IsNumeric(tok) ==
    /\ Len(Unsigned(tok)) > 0
    /\ \A i \in 1..Len(Unsigned(tok)) : IsDigit(Unsigned(tok)[i])

RECURSIVE ParseDigits(_)
ParseDigits(s) ==
    IF s = <<>> THEN 0
    ELSE 10 * ParseDigits(SubSeq(s, 1, Len(s) - 1)) + DigitValue(s[Len(s)])

ParseNumber(tok) ==
    IF Len(tok) > 0 /\ tok[1] = "-" THEN 0 - ParseDigits(Unsigned(tok))
    ELSE ParseDigits(Unsigned(tok))

---------------------------------------------------------------------------
(* Cells of a table: text, a number, or the missing marker. *)

NaN == [k |-> "nan", s |-> <<>>, v |-> 0]

Num(n) == [k |-> "num", s |-> <<>>, v |-> n]

Str(tok) == [k |-> "str", s |-> tok, v |-> 0]

numeric_columns ==
    <<"Campaign_Budget", "Ad_Click_Rate", "Conversion_Rate",
      "Social_Media_Followers", "Email_Open_Rate", "Customer_Retention_Rate">>

category_columns == <<"Platform", "Campaign_Type", "Target_Audience">>

Columns ==
    {numeric_columns[i] : i \in 1..Len(numeric_columns)}
        \cup {category_columns[i] : i \in 1..Len(category_columns)}

\* Texts pandas.read_csv reads as missing (those of its defaults that the
\* modelled files use).
NaValues == {<<>>, <<"N", "/", "A">>, <<"N", "A">>, <<"N", "a", "N">>}

\* pandas.read_csv on one column: missing texts become NaN; the column
\* becomes numeric when every other text parses, and keeps its texts
\* otherwise.
ReadColumn(toks) ==
    LET allnum == \A i \in 1..Len(toks) :
                      toks[i] \notin NaValues => IsNumeric(toks[i])
    IN  [i \in 1..Len(toks) |->
            IF toks[i] \in NaValues THEN NaN
            ELSE IF allnum THEN Num(ParseNumber(toks[i]))
            ELSE Str(toks[i])]

\* pd.read_csv(filepath) on an existing file: the table, column by column.
read_csv(f) ==
    [c \in Columns |-> ReadColumn([i \in 1..Len(f) |-> f[i][c]])]


\* A plausible slip: only text cells are converted, anything else is
\* taken as unparseable.
to_numeric_text_only(col) ==
    [i \in 1..Len(col) |->
        IF col[i].k = "str" /\ IsNumeric(col[i].s)
        THEN Num(ParseNumber(col[i].s))
        ELSE NaN]

\* pd.to_numeric(col, errors='coerce'): numbers and missing markers are
\* kept, a text becomes its number, or NaN when it does not parse.
to_numeric(col) ==
    [i \in 1..Len(col) |->
        CASE col[i].k = "num" -> col[i]
          [] col[i].k = "nan" -> col[i]
          [] col[i].k = "str" ->
                IF IsNumeric(col[i].s) THEN Num(ParseNumber(col[i].s))
                ELSE NaN]

\* The loop "for col in numeric_columns: df[col] = pd.to_numeric(...)",
\* from the i-th column on.
RECURSIVE CoerceFrom(_, _)
CoerceFrom(d, i) ==
    IF i > Len(numeric_columns) THEN d
    ELSE CoerceFrom([d EXCEPT ![numeric_columns[i]] = to_numeric(@)], i + 1)

\* load_and_prepare_data(filepath) when the file exists.
load_and_prepare_data(f) == CoerceFrom(read_csv(f), 1)

---------------------------------------------------------------------------
(* Results of aggregation: exact rationals in lowest terms, or undefined. *)

Abs(n) == IF n < 0 THEN 0 - n ELSE n

RECURSIVE GCD(_, _)
GCD(a, b) == IF b = 0 THEN a ELSE GCD(b, a % b)

Undefined == [k |-> "nan", num |-> 0, den |-> 1]

\* n / d for d > 0.
Rat(n, d) ==
    LET g == GCD(Abs(n), d)
    IN  [k |-> "num", num |-> n \div g, den |-> d \div g]

\* n / d as floating-point division gives it: 0/0 is undefined.
Div(n, d) == IF d = 0 THEN Undefined ELSE Rat(n, d)

---------------------------------------------------------------------------
(* Series reductions, skipping missing values (skipna=True). *)

RECURSIVE nansum(_)
nansum(col) ==
    IF col = <<>> THEN 0
    ELSE (IF Head(col).k = "num" THEN Head(col).v ELSE 0) + nansum(Tail(col))

RECURSIVE count(_)
count(col) ==
    IF col = <<>> THEN 0
    ELSE (IF Head(col).k = "num" THEN 1 ELSE 0) + count(Tail(col))

\* A plausible slip: the sum of no values is undefined (min_count=1).
SeriesSum_min_count_1(col) ==
    IF count(col) = 0 THEN Undefined ELSE Rat(nansum(col), 1)

\* Series.sum(): the sum of the non-missing values, 0 when there are none
\* (min_count=0).
SeriesSum(col) == Rat(nansum(col), 1)

\* A plausible slip: the mean divides by the number of rows, missing or not.
SeriesMean_all_rows(col) == Div(nansum(col), Len(col))

\* Series.mean(): the sum of the non-missing values over their number,
\* undefined when there are none.
SeriesMean(col) == Div(nansum(col), count(col))

---------------------------------------------------------------------------
(* df.groupby(by).agg({...}).reset_index() *)

\* The distinct non-missing values of a column (groupby drops missing keys).
KeySet(col) == {col[i] : i \in {j \in 1..Len(col) : col[j].k # "nan"}}

\* Text cells in ascending order of their text.
RECURSIVE SortCells(_)
SortCells(S) ==
    IF S = {} THEN <<>>
    ELSE LET m == CHOOSE x \in S : \A y \in S \ {x} : StrLess(x.s, y.s)
         IN  <<m>> \o SortCells(S \ {m})

\* A plausible slip: missing keys form a group of their own (dropna=False).
GroupKeys_keep_missing(col) ==
    SortCells(KeySet(col))
        \o (IF \E i \in 1..Len(col) : col[i].k = "nan" THEN <<NaN>> ELSE <<>>)

\* The group keys in the order groupby(sort=True) yields them.
GroupKeys(col) == SortCells(KeySet(col))

\* A plausible slip: every group aggregates the whole column.
GroupCells_whole_column(col, by, key) == col

\* The cells of col in the rows whose by-cell is key, in row order.
RECURSIVE GroupCells(_, _, _)
GroupCells(col, by, key) ==
    IF col = <<>> THEN <<>>
    ELSE (IF Head(by) = key THEN <<Head(col)>> ELSE <<>>)
             \o GroupCells(Tail(col), Tail(by), key)

\* One aggregation of one column of a group.
Aggregate(cells, how) ==
    IF how = "sum" THEN SeriesSum(cells) ELSE SeriesMean(cells)

\* The aggregations of the platform and campaign-type tables.
PerformanceAgg ==
    {<<"Campaign_Budget", "mean">>, <<"Campaign_Budget", "sum">>,
     <<"Ad_Click_Rate", "mean">>, <<"Conversion_Rate", "mean">>,
     <<"Customer_Retention_Rate", "mean">>}

\* The aggregations of the target-audience table.
AudienceAgg == PerformanceAgg \cup {<<"Social_Media_Followers", "mean">>}

\* d.groupby(by).agg(spec).reset_index(): one row per group key.
GroupByAgg(d, by, spec) ==
    LET keys == GroupKeys(d[by])
    IN  [g \in 1..Len(keys) |->
            [key |-> keys[g],
             agg |-> [a \in spec |->
                         Aggregate(GroupCells(d[a[1]], d[by], keys[g]), a[2])]]]

---------------------------------------------------------------------------
(* DataFrame.corr(): pairwise Pearson correlation, min_periods=1. *)

\* A plausible slip: a row counts as soon as the first column holds a
\* value, a missing second value standing as 0.
Mask_first_only(x, y) == [i \in 1..Len(x) |-> x[i].k = "num"]

\* The rows in which both columns hold a value.
Mask(x, y) == [i \in 1..Len(x) |-> x[i].k = "num" /\ y[i].k = "num"]

RECURSIVE CountTrue(_)
CountTrue(m) ==
    IF m = <<>> THEN 0 ELSE (IF Head(m) THEN 1 ELSE 0) + CountTrue(Tail(m))

RECURSIVE MaskedSum(_, _)
MaskedSum(a, m) ==
    IF m = <<>> THEN 0
    ELSE (IF Head(m) THEN Head(a).v ELSE 0) + MaskedSum(Tail(a), Tail(m))

RECURSIVE MaskedDot(_, _, _)
MaskedDot(a, b, m) ==
    IF m = <<>> THEN 0
    ELSE (IF Head(m) THEN Head(a).v * Head(b).v ELSE 0)
             + MaskedDot(Tail(a), Tail(b), Tail(m))

\* n^2 times the covariance of a and b over the rows of mask m, n the
\* number of those rows: n * sum(a*b) - sum(a) * sum(b).
CoMoment(a, b, m) ==
    CountTrue(m) * MaskedDot(a, b, m) - MaskedSum(a, m) * MaskedSum(b, m)

NoCorr == [k |-> "nan", sgn |-> 0, num |-> 0, den |-> 1]

\* The coefficient c / sqrt(vx * vy), vx > 0 and vy > 0, held as its sign
\* and the exact rational (c/vx) * (c/vy) in lowest terms.
Coefficient(c, vx, vy) ==
    LET p  == Rat(Abs(c), vx)
        q  == Rat(Abs(c), vy)
        r2 == Rat(p.num * q.num, p.den * q.den)
    IN  [k |-> "num",
         sgn |-> IF c > 0 THEN 1 ELSE IF c < 0 THEN 0 - 1 ELSE 0,
         num |-> r2.num, den |-> r2.den]

\* A plausible slip: the covariance is divided by the first column's
\* variance (the regression slope) instead of by both deviations.
PairCorr_divides_by_vx(x, y) ==
    LET m  == Mask(x, y)
        vx == CoMoment(x, x, m)
        vy == CoMoment(y, y, m)
    IN  IF CountTrue(m) < 1 \/ vx = 0 \/ vy = 0 THEN NoCorr
        ELSE Coefficient(CoMoment(x, y, m), vx, vx)

\* One cell of the matrix: undefined with no shared row or with a zero
\* variance (a zero divisor), the coefficient otherwise.
PairCorr(x, y) ==
    LET m  == Mask(x, y)
        vx == CoMoment(x, x, m)
        vy == CoMoment(y, y, m)
    IN  IF CountTrue(m) < 1 \/ vx = 0 \/ vy = 0 THEN NoCorr
        ELSE Coefficient(CoMoment(x, y, m), vx, vy)

NumericSet == {numeric_columns[i] : i \in 1..Len(numeric_columns)}

\* df[[the six numeric columns]].corr()
corr(d) == [p \in NumericSet \X NumericSet |-> PairCorr(d[p[1]], d[p[2]])]

---------------------------------------------------------------------------
(* generate_comprehensive_analysis(df) *)

overall_performance(d) ==
    [total_budget            |-> SeriesSum(d["Campaign_Budget"]),
     average_budget          |-> SeriesMean(d["Campaign_Budget"]),
     average_click_rate      |-> SeriesMean(d["Ad_Click_Rate"]),
     average_conversion_rate |-> SeriesMean(d["Conversion_Rate"]),
     average_retention_rate  |-> SeriesMean(d["Customer_Retention_Rate"])]

generate_comprehensive_analysis(d) ==
    [overall_performance       |-> overall_performance(d),
     platform_performance      |-> GroupByAgg(d, "Platform", PerformanceAgg),
     campaign_type_performance |-> GroupByAgg(d, "Campaign_Type", PerformanceAgg),
     audience_performance      |-> GroupByAgg(d, "Target_Audience", AudienceAgg),
     correlation_matrix        |-> corr(d)]

---------------------------------------------------------------------------
(* The modelled inputs. *)

Facebook == <<"F", "a", "c", "e", "b", "o", "o", "k">>

Google == <<"G", "o", "o", "g", "l", "e">>

\* The texts a Platform cell holds: two platforms and the empty cell.
PlatformTexts == {Facebook, Google, <<>>}

\* The texts a Campaign_Budget cell holds: two amounts, a text read_csv
\* reads as missing, and a text only to_numeric rejects.
BudgetTexts == {<<"1", "0", "0">>, <<"3", "0", "0">>, <<"N", "/", "A">>,
                <<"a", "b", "c">>}

\* The texts of the other seven cells of a row, chosen together.
RestTexts ==
    { [Campaign_Type           |-> <<"E", "m", "a", "i", "l">>,
       Target_Audience         |-> <<"M", "e", "n">>,
       Ad_Click_Rate           |-> <<"1">>,
       Conversion_Rate         |-> <<"2">>,
       Social_Media_Followers  |-> <<"5">>,
       Email_Open_Rate         |-> <<"3">>,
       Customer_Retention_Rate |-> <<"4">>],
      [Campaign_Type           |-> <<"S", "o", "c", "i", "a", "l">>,
       Target_Audience         |-> <<"W", "o", "m", "e", "n">>,
       Ad_Click_Rate           |-> <<"2">>,
       Conversion_Rate         |-> <<"2">>,
       Social_Media_Followers  |-> <<"7">>,
       Email_Open_Rate         |-> <<"1", "x">>,
       Customer_Retention_Rate |-> <<"-", "1">>],
      [Campaign_Type           |-> <<>>,
       Target_Audience         |-> <<"M", "e", "n">>,
       Ad_Click_Rate           |-> <<"3">>,
       Conversion_Rate         |-> <<"N", "a", "N">>,
       Social_Media_Followers  |-> <<"N", "A">>,
       Email_Open_Rate         |-> <<"2">>,
       Customer_Retention_Rate |-> <<"4">>] }

\* One data line of a file, as the text of each of its cells.
Row(p, b, r) ==
    [c \in Columns |->
        IF c = "Platform" THEN p
        ELSE IF c = "Campaign_Budget" THEN b
        ELSE r[c]]

Rows == {Row(p, b, r) : p \in PlatformTexts, b \in BudgetTexts, r \in RestTexts}

\* The files of the analysis runs: up to MaxRows data lines.
Files == UNION {[1..n -> Rows] : n \in 0..MaxRows}

\* The files of the full runs of main(), whose control flow does not read
\* the data: lines of one platform.
MainRows == {Row(Facebook, b, r) : b \in {<<"1", "0", "0">>, <<"a", "b", "c">>},
                                   r \in {x \in RestTexts : x.Campaign_Type = <<>>}}

MainFiles == UNION {[1..n -> MainRows] : n \in 0..MaxRows}

Paths == {"marketing_data.csv", "campaigns.csv"}

---------------------------------------------------------------------------
(* main(filepath) and the script's last lines. *)

Charts == {"budget_distribution.png", "correlation_heatmap.png",
           "conversion_rate_by_platform.png"}

\* The steps of the three stages, in the order main() reaches them.
StageOrder == <<"load", "analyze", "print_overall", "print_platform",
                "print_campaign_type", "print_audience", "viz_budget",
                "viz_heatmap", "viz_conversion">>

\* The positions inside main()'s try block.
TryBody == {StageOrder[i] : i \in 1..Len(StageOrder)}
               \cup {"print_saved", "print_hold", "hold"}

Line(kind) == [kind |-> kind, path |-> ""]

\* The lines of the report proper.
ReportKinds == {"overall", "platform_table", "campaign_type_table",
                "audience_table"}

Printed(kind) == \E i \in 1..Len(out) : out[i].kind = kind

Unbound == <<>>

StartOfRun ==
    /\ pc = "banner"
    /\ bound = {}
    /\ df = Unbound
    /\ analysis = Unbound
    /\ out = <<>>
    /\ written = {}
    /\ stages = <<>>
    /\ failed = "none"
    /\ via = "none"
    /\ wasHeld = FALSE
    /\ exitStatus = "running"

\* A run of the script on any path, present or not.
Init ==
    /\ filepath \in Paths
    /\ exists \in BOOLEAN
    /\ file \in (IF exists THEN MainFiles ELSE {<<>>})
    /\ StartOfRun

\* print() of the two banner lines, before the try block.
Banner ==
    /\ pc = "banner"
    /\ out' = out \o <<Line("title"), Line("rule")>>
    /\ pc' = "load"
    /\ UNCHANGED <<filepath, exists, file, bound, df, analysis, written,
                   stages, failed, via, wasHeld, exitStatus>>

\* A plausible slip: a missing file is read as an empty table.
Load_missing_as_empty ==
    /\ pc = "load"
    /\ stages' = Append(stages, "load")
    /\ df' = load_and_prepare_data(IF exists THEN file ELSE <<>>)
    /\ bound' = bound \cup {"df"}
    /\ pc' = "analyze"
    /\ UNCHANGED <<filepath, exists, file, analysis, out, written, failed,
                   via, wasHeld, exitStatus>>

\* df = load_and_prepare_data(filepath): read_csv raises FileNotFoundError
\* when the path does not exist.
Load ==
    /\ pc = "load"
    /\ stages' = Append(stages, "load")
    /\ IF exists
       THEN /\ df' = load_and_prepare_data(file)
            /\ bound' = bound \cup {"df"}
            /\ pc' = "analyze"
            /\ UNCHANGED failed
       ELSE /\ failed' = "load"
            /\ pc' = "except_FileNotFoundError"
            /\ UNCHANGED <<df, bound>>
    /\ UNCHANGED <<filepath, exists, file, analysis, out, written, via,
                   wasHeld, exitStatus>>

\* analysis = generate_comprehensive_analysis(df)
Analyze ==
    /\ pc = "analyze"
    /\ stages' = Append(stages, "analyze")
    /\ analysis' = generate_comprehensive_analysis(df)
    /\ bound' = bound \cup {"analysis"}
    /\ pc' = "print_overall"
    /\ UNCHANGED <<filepath, exists, file, df, out, written, failed, via,
                   wasHeld, exitStatus>>

\* One print step of the report: at, the lines, the next position.
PrintStep(at, lines, next) ==
    /\ pc = at
    /\ stages' = Append(stages, at)
    /\ out' = out \o lines
    /\ pc' = next
    /\ UNCHANGED <<filepath, exists, file, bound, df, analysis, written,
                   failed, via, wasHeld, exitStatus>>

\* The heading and the five metric lines.
PrintOverall ==
    PrintStep("print_overall",
              <<Line("overall_heading")>> \o [i \in 1..5 |-> Line("overall")],
              "print_platform")

PrintPlatform ==
    PrintStep("print_platform",
              <<Line("platform_heading"), Line("platform_table")>>,
              "print_campaign_type")

PrintCampaignType ==
    PrintStep("print_campaign_type",
              <<Line("campaign_type_heading"), Line("campaign_type_table")>>,
              "print_audience")

PrintAudience ==
    PrintStep("print_audience",
              <<Line("audience_heading"), Line("audience_table")>>,
              "viz_budget")

\* One chart of visualize_results: drawn, saved under its name, closed.
SaveChart(at, name, next) ==
    /\ pc = at
    /\ stages' = Append(stages, at)
    /\ written' = written \cup {name}
    /\ pc' = next
    /\ UNCHANGED <<filepath, exists, file, bound, df, analysis, out, failed,
                   via, wasHeld, exitStatus>>

VizBudget == SaveChart("viz_budget", "budget_distribution.png", "viz_heatmap")

VizHeatmap == SaveChart("viz_heatmap", "correlation_heatmap.png", "viz_conversion")

VizConversion ==
    SaveChart("viz_conversion", "conversion_rate_by_platform.png", "print_saved")

\* print("Visualizations have been saved ...")
PrintSaved ==
    /\ pc = "print_saved"
    /\ out' = Append(out, Line("saved"))
    /\ pc' = "print_hold"
    /\ UNCHANGED <<filepath, exists, file, bound, df, analysis, written,
                   stages, failed, via, wasHeld, exitStatus>>

\* print("Press Ctrl+C to exit the program...")
PrintHold ==
    /\ pc = "print_hold"
    /\ out' = Append(out, Line("press_ctrl_c"))
    /\ pc' = "hold"
    /\ wasHeld' = TRUE
    /\ UNCHANGED <<filepath, exists, file, bound, df, analysis, written,
                   stages, failed, via, exitStatus>>

\* A plausible slip: the loop falls through and main() returns.
Hold_falls_through ==
    /\ pc = "hold"
    /\ pc' = "returned"
    /\ via' = "return"
    /\ UNCHANGED <<filepath, exists, file, bound, df, analysis, out, written,
                   stages, failed, wasHeld, exitStatus>>

\* while True: pass
Hold ==
    /\ pc = "hold"
    /\ UNCHANGED vars

\* A stage step other than a missing file's read raises an Exception: an
\* unreadable or malformed file, a missing column, a failed write.
StageRaises ==
    /\ pc \in TryBody \ {"print_saved", "print_hold", "hold"}
    /\ pc = "load" => exists
    /\ stages' = Append(stages, pc)
    /\ failed' = pc
    /\ pc' = "except_Exception"
    /\ UNCHANGED <<filepath, exists, file, bound, df, analysis, out, written,
                   via, wasHeld, exitStatus>>

\* Ctrl+C while control is inside the try block.  An interrupt is taken to
\* arrive between the steps of the try block, in the hold loop, or during
\* a wait in input().
KeyboardInterrupt ==
    /\ pc \in TryBody
    /\ pc' = "except_KeyboardInterrupt"
    /\ UNCHANGED <<filepath, exists, file, bound, df, analysis, out, written,
                   stages, failed, via, wasHeld, exitStatus>>

\* except FileNotFoundError: the message naming the path, and the prompt.
ExceptFileNotFoundError ==
    /\ pc = "except_FileNotFoundError"
    /\ out' = out \o <<[kind |-> "file_not_found", path |-> filepath],
                       Line("press_any_key")>>
    /\ pc' = "input"
    /\ UNCHANGED <<filepath, exists, file, bound, df, analysis, written,
                   stages, failed, via, wasHeld, exitStatus>>

\* except KeyboardInterrupt: the termination notice; main() returns.
ExceptKeyboardInterrupt ==
    /\ pc = "except_KeyboardInterrupt"
    /\ out' = Append(out, Line("terminated_by_user"))
    /\ pc' = "returned"
    /\ via' = "return"
    /\ UNCHANGED <<filepath, exists, file, bound, df, analysis, written,
                   stages, failed, wasHeld, exitStatus>>

\* A plausible slip: the handler carries on with the step after the one
\* that raised.
ExceptException_resumes ==
    /\ pc = "except_Exception"
    /\ out' = out \o <<Line("unexpected_error"), Line("press_any_key")>>
    /\ pc' = IF failed = "viz_conversion" THEN "print_saved"
             ELSE StageOrder[(CHOOSE i \in 1..Len(StageOrder) :
                                  StageOrder[i] = failed) + 1]
    /\ UNCHANGED <<filepath, exists, file, bound, df, analysis, written,
                   stages, failed, via, wasHeld, exitStatus>>

\* except Exception as e: the message with the cause, and the prompt.
ExceptException ==
    /\ pc = "except_Exception"
    /\ out' = out \o <<Line("unexpected_error"), Line("press_any_key")>>
    /\ pc' = "input"
    /\ UNCHANGED <<filepath, exists, file, bound, df, analysis, written,
                   stages, failed, via, wasHeld, exitStatus>>

\* input() in a handler returns on a line of input; main() returns.
InputReturns ==
    /\ pc = "input"
    /\ pc' = "returned"
    /\ via' = "return"
    /\ UNCHANGED <<filepath, exists, file, bound, df, analysis, out, written,
                   stages, failed, wasHeld, exitStatus>>

\* Ctrl+C during input(): raised inside a handler, the KeyboardInterrupt
\* is caught by no clause and ends the process.
InputInterrupted ==
    /\ pc = "input"
    /\ pc' = "exited"
    /\ via' = "uncaught"
    /\ exitStatus' = "interrupt"
    /\ UNCHANGED <<filepath, exists, file, bound, df, analysis, out, written,
                   stages, failed, wasHeld>>

\* sys.exit(0) after main() has returned.
SysExit ==
    /\ pc = "returned"
    /\ pc' = "exited"
    /\ exitStatus' = "0"
    /\ UNCHANGED <<filepath, exists, file, bound, df, analysis, out, written,
                   stages, failed, via, wasHeld>>

Next ==
    \/ Banner
    \/ Load
    \/ Analyze
    \/ PrintOverall
    \/ PrintPlatform
    \/ PrintCampaignType
    \/ PrintAudience
    \/ VizBudget
    \/ VizHeatmap
    \/ VizConversion
    \/ PrintSaved
    \/ PrintHold
    \/ Hold
    \/ StageRaises
    \/ KeyboardInterrupt
    \/ ExceptFileNotFoundError
    \/ ExceptKeyboardInterrupt
    \/ ExceptException
    \/ InputReturns
    \/ InputInterrupted
    \/ SysExit

Spec == Init /\ [][Next]_vars

\* Runs of the loader and the analyzer on the files of Files: main() up to
\* the analysis, on an existing file, with no failure and no interrupt.
InitAnalysis ==
    /\ filepath = "marketing_data.csv"
    /\ exists = TRUE
    /\ file \in Files
    /\ StartOfRun

NextAnalysis ==
    \/ Banner
    \/ Load
    \/ Analyze

SpecAnalysis == InitAnalysis /\ [][NextAnalysis]_vars

---------------------------------------------------------------------------
(* Properties of the run of main(). *)

\* Whether a report line has been printed.
ReportPrinted == \E i \in 1..Len(out) : out[i].kind \in ReportKinds

\* The error message of a handler, directly followed by the prompt.
MessageThenPrompt(m) ==
    \E i \in 1..(Len(out) - 1) : out[i] = m /\ out[i + 1] = Line("press_any_key")

FileNotFoundMessage == [kind |-> "file_not_found", path |-> filepath]

\* Whether p is an initial part of q.
IsPrefix(p, q) == Len(p) <= Len(q) /\ SubSeq(q, 1, Len(p)) = p

\* C1: when the input path does not exist, no chart is ever written, no
\* report line is ever printed and no table is ever bound; the load step
\* fails with FileNotFoundError and nothing else; once the handler has run
\* the message naming the given path has been printed, followed by the
\* prompt; and the process ends only after input() was reached, by a line
\* of input (status 0) or by an interrupt of the wait.
C1_MissingFileWritesNothing ==
    ~exists =>
        /\ written = {}
        /\ ~ReportPrinted
        /\ bound = {}
        /\ failed \in {"none", "load"}
        /\ ~Printed("unexpected_error")
        /\ stages # <<>> => stages = <<"load">> /\ failed = "load"
        /\ (failed = "load" /\ pc # "except_FileNotFoundError")
               => /\ MessageThenPrompt(FileNotFoundMessage)
                  /\ pc \in {"input", "returned", "exited"}
        /\ (failed = "load" /\ pc = "exited")
               => \/ via = "return" /\ exitStatus = "0"
                  \/ via = "uncaught" /\ exitStatus = "interrupt"

\* C1's case: a run on a missing path has ended after the acknowledgment.
C1_Witness ==
    /\ ~exists
    /\ pc = "exited"
    /\ failed = "load"
    /\ via = "return"

\* The chart each chart step writes.
ChartOf == [viz_budget     |-> "budget_distribution.png",
            viz_heatmap    |-> "correlation_heatmap.png",
            viz_conversion |-> "conversion_rate_by_platform.png"]

StagesBegun == {stages[i] : i \in 1..Len(stages)}

\* What holds in every state of a run, for C2: the steps begun are an
\* initial part of the order, the failed step is the last one begun, the
\* charts written are those of the chart steps that completed, and a
\* failed run has ended only after its message and the prompt.
C2_Inv ==
    /\ IsPrefix(stages, StageOrder)
    /\ failed # "none" => stages # <<>> /\ stages[Len(stages)] = failed
    /\ written = {ChartOf[x] : x \in (StagesBegun \ {failed}) \cap DOMAIN ChartOf}
    /\ (failed # "none" /\ pc = "exited")
           => /\ \/ MessageThenPrompt(FileNotFoundMessage)
                 \/ MessageThenPrompt(Line("unexpected_error"))
              /\ via \in {"return", "uncaught"}

\* What holds of every step of a run, for C2: after a failure no stage
\* step, no chart, no printed report and no binding is added, and the
\* only way on leads through the handler, input() and the exit.
C2_Step ==
    failed # "none" =>
        /\ stages' = stages
        /\ written' = written
        /\ bound' = bound
        /\ failed' = failed
        /\ ReportPrinted' = ReportPrinted
        /\ pc' \in {"except_FileNotFoundError", "except_Exception", "input",
                    "returned", "exited"}
        /\ pc' = "exited" => pc \in {"input", "returned"}
        /\ pc' = "returned" => pc = "input"

\* C2: the stage steps run at most once each and in the order load,
\* analyze, the four report prints, the three chart writes; once a step
\* has raised, no later step ever runs and nothing is retried; the run
\* then ends only after the error message and the prompt were printed and
\* input() was reached.
C2_StagesOnceInOrderAbortOnFailure == [](C2_Inv) /\ [][C2_Step]_vars

\* C2's case: a chart write failed after the first chart was written, and
\* the run has ended.
C2_Witness ==
    /\ failed = "viz_heatmap"
    /\ written = {"budget_distribution.png"}
    /\ pc = "exited"

\* What holds in every state of a run, for C3.
C3_Inv ==
    /\ Printed("saved") => written = Charts
    /\ wasHeld => /\ Printed("saved")
                  /\ out[Len(out)].kind \in {"press_ctrl_c", "terminated_by_user"}
                  /\ failed = "none"
    /\ (wasHeld /\ pc \in {"returned", "exited"})
           => out[Len(out)] = Line("terminated_by_user")
    /\ (wasHeld /\ pc = "exited") => exitStatus = "0"
    /\ pc # "exited" <=> exitStatus = "running"
    /\ (failed # "none" /\ pc = "exited")
           => /\ Printed("file_not_found") \/ Printed("unexpected_error")
              /\ out[Len(out)] = Line("press_any_key")
              /\ exitStatus \in {"0", "interrupt"}

\* What holds of every step of a run, for C3: the hold loop is left only
\* by an interrupt, and a wait in input() only by a line of input or an
\* interrupt.
C3_Step ==
    /\ pc = "hold" => pc' \in {"hold", "except_KeyboardInterrupt"}
    /\ (wasHeld /\ pc = "except_KeyboardInterrupt") => pc' = "returned"
    /\ (pc' = "exited" /\ pc # "exited") => pc \in {"returned", "input"}
    /\ (pc' = "returned" /\ pc # "returned")
           => pc \in {"except_KeyboardInterrupt", "input"}
    /\ (pc' = "input" /\ pc # "input")
           => pc \in {"except_FileNotFoundError", "except_Exception"}

\* C3: a successful run prints the completion line only after all three
\* charts are written, then holds: it leaves the hold loop only on an
\* interrupt, after which it prints the termination notice and exits with
\* status 0.  A run that failed prints its message and the prompt, waits
\* in input(), and exits on a line of input or on an interrupt.
C3_ExitBehavior == [](C3_Inv) /\ [][C3_Step]_vars

\* C3's case: a successful run was held, interrupted, and has exited.
C3_Witness ==
    /\ wasHeld
    /\ pc = "exited"
    /\ written = Charts

---------------------------------------------------------------------------
(* Reference aggregates, computed over index sets with no notion of a      *)
(* missing value: the properties of the loader and the analyzer compare    *)
(* the results of the analysis with them.                                  *)

Loaded == "df" \in bound

Analysed == "analysis" \in bound

\* The rows of I in which col holds a value.
ValidIn(col, I) == {i \in I : col[i].k = "num"}

RECURSIVE SumAt(_, _)
SumAt(col, I) ==
    IF I = {} THEN 0
    ELSE LET i == CHOOSE j \in I : TRUE
         IN  col[i].v + SumAt(col, I \ {i})

RECURSIVE DotAt(_, _, _)
DotAt(a, b, I) ==
    IF I = {} THEN 0
    ELSE LET i == CHOOSE j \in I : TRUE
         IN  a[i].v * b[i].v + DotAt(a, b, I \ {i})

\* r is the number n / d, d > 0.
IsRatio(r, n, d) == r.k = "num" /\ r.den > 0 /\ r.num * d = n * r.den

\* r is the mean of the values col holds in the rows of I, undefined when
\* it holds none.
IsMeanOf(r, col, I) ==
    IF ValidIn(col, I) = {} THEN r.k = "nan"
    ELSE IsRatio(r, SumAt(col, ValidIn(col, I)), Cardinality(ValidIn(col, I)))

\* r is the sum of the values col holds in the rows of I, 0 when it holds
\* none.
IsSumOf(r, col, I) == IsRatio(r, SumAt(col, ValidIn(col, I)), 1)

\* min <= r <= max over the values col holds in the rows of V, times n.
WithinTimes(r, col, V, n) ==
    /\ r.k = "num"
    /\ \E i \in V : col[i].v * n * r.den <= r.num
    /\ \E i \in V : r.num <= col[i].v * n * r.den

\* The three grouped tables: the key of the analysis, the grouping column,
\* the aggregations.
GroupedTables ==
    {<<"platform_performance", "Platform", PerformanceAgg>>,
     <<"campaign_type_performance", "Campaign_Type", PerformanceAgg>>,
     <<"audience_performance", "Target_Audience", AudienceAgg>>}

\* The rows of the table whose grouping cell is key.
GroupIdx(by, key) == {i \in 1..Len(by) : by[i] = key}

\* P(r, col, I, how) of every cell r of every row of every grouped table:
\* col the aggregated column, I the rows of the category, how the
\* aggregation.
EveryGroupedCell(P(_, _, _, _)) ==
    \A t \in GroupedTables :
        \A g \in 1..Len(analysis[t[1]]) :
            \A a \in t[3] :
                P(analysis[t[1]][g].agg[a], df[a[1]],
                  GroupIdx(df[t[2]], analysis[t[1]][g].key), a[2])

Overall == analysis["overall_performance"]

AllRows == 1..Len(file)

---------------------------------------------------------------------------
(* Properties of the analyzer. *)

FourMeansUndefined ==
    /\ Overall.average_budget.k = "nan"
    /\ Overall.average_click_rate.k = "nan"
    /\ Overall.average_conversion_rate.k = "nan"
    /\ Overall.average_retention_rate.k = "nan"

EmptyTablesAndMatrix ==
    /\ \A t \in GroupedTables : analysis[t[1]] = <<>>
    /\ \A p \in NumericSet \X NumericSet :
           analysis["correlation_matrix"][p].k = "nan"

\* C4 as stated: on an empty table all five overall metrics, the budget
\* total among them, are undefined.
C4_AllFiveUndefined ==
    (Analysed /\ file = <<>>) =>
        /\ Overall.total_budget.k = "nan"
        /\ FourMeansUndefined
        /\ EmptyTablesAndMatrix

\* C4, amended: on an empty table (no data rows) the analysis is produced,
\* the four overall means are undefined and the budget total is 0, the
\* three grouped tables are empty and every cell of the correlation matrix
\* is undefined.
C4_EmptyTable ==
    (file = <<>> /\ pc \notin {"banner", "load", "analyze"}) =>
        /\ Analysed
        /\ Overall.total_budget = [k |-> "num", num |-> 0, den |-> 1]
        /\ FourMeansUndefined
        /\ EmptyTablesAndMatrix

\* C4's case: the empty table has been analysed.
C4_Witness == Analysed /\ file = <<>> /\ \A c \in Columns : df[c] = <<>>

\* A grouped mean lies within [min, max] of the category's values of the
\* column, and is undefined when the category has none.
MeanWithin(r, col, I, how) ==
    how = "mean" =>
        IF ValidIn(col, I) = {} THEN r.k = "nan"
        ELSE WithinTimes(r, col, ValidIn(col, I), 1)

\* A grouped sum lies within [n * min, n * max], n the number of the
\* category's values of the column, and is 0 when the category has none.
SumWithin(r, col, I, how) ==
    how = "sum" =>
        IF ValidIn(col, I) = {} THEN r = [k |-> "num", num |-> 0, den |-> 1]
        ELSE WithinTimes(r, col, ValidIn(col, I), Cardinality(ValidIn(col, I)))

\* Any grouped cell, sum or mean, lies within [min, max].
CellWithin(r, col, I, how) ==
    ValidIn(col, I) # {} => WithinTimes(r, col, ValidIn(col, I), 1)

\* C5 as stated: every numeric cell of a category's row, the budget sum
\* included, lies within [min, max] of the category's non-missing values
\* of the column.
C5_EveryCellWithinMinMax == Analysed => EveryGroupedCell(CellWithin)

\* C5, amended: every mean of a category's row lies within [min, max] of
\* the category's non-missing values of the column (and is undefined when
\* there are none); the budget sum lies within [n * min, n * max], n the
\* number of those values (and is 0 when there are none).
C5_MeansWithinMinMax ==
    Analysed => EveryGroupedCell(MeanWithin) /\ EveryGroupedCell(SumWithin)

\* C5's case: a category with two different budgets and one with a
\* missing budget beside a present one.
C5_Witness ==
    /\ Analysed
    /\ \E g \in 1..Len(analysis["platform_performance"]) :
           LET row == analysis["platform_performance"][g]
               I   == GroupIdx(df["Platform"], row.key)
           IN  /\ Cardinality({df["Campaign_Budget"][i].v :
                                   i \in ValidIn(df["Campaign_Budget"], I)}) = 2
               /\ row.agg[<<"Campaign_Budget", "mean">>].k = "num"
    /\ \E g \in 1..Len(analysis["audience_performance"]) :
           LET row == analysis["audience_performance"][g]
               I   == GroupIdx(df["Target_Audience"], row.key)
           IN  /\ ValidIn(df["Social_Media_Followers"], I) # {}
               /\ ValidIn(df["Social_Media_Followers"], I) # I

\* C6: each grouped table has exactly one row per distinct non-missing
\* text of its grouping column in the file: as many rows as there are such
\* texts, every such text the key of exactly one row, and every key such a
\* text (so no row for a missing cell, none for a category without rows).
C6_OneRowPerCategory ==
    Analysed =>
        \A t \in GroupedTables :
            LET tab   == analysis[t[1]]
                texts == {file[i][t[2]] : i \in AllRows} \ NaValues
            IN  /\ Len(tab) = Cardinality(texts)
                /\ \A x \in texts :
                       Cardinality({g \in 1..Len(tab) : tab[g].key = Str(x)}) = 1
                /\ \A g \in 1..Len(tab) :
                       tab[g].key.k = "str" /\ tab[g].key.s \in texts

\* C6's case: a file of two lines, one of them with no platform and the
\* two of different audiences, has been analysed: one platform row, two
\* audience rows.
C6_Witness ==
    /\ Analysed
    /\ Len(file) = 2
    /\ Len(analysis["platform_performance"]) = 1
    /\ \E i \in AllRows : file[i]["Platform"] \in NaValues
    /\ Len(analysis["audience_performance"]) = 2


Zero == [k |-> "num", num |-> 0, den |-> 1]

\* r is the budget total over the rows of I; with no budget at all it is
\* whenNone.
IsTotalOf(r, col, I, whenNone) ==
    IF ValidIn(col, I) = {} THEN r = whenNone ELSE IsSumOf(r, col, I)

\* A grouped cell is the mean or the sum of the category's values.
IsAggregateOf(r, col, I, how) ==
    IF how = "sum" THEN IsSumOf(r, col, I) ELSE IsMeanOf(r, col, I)

\* The two-line file of the scenario: Facebook, Facebook with budgets 100
\* and 300.
IsScenario ==
    /\ Len(file) = 2
    /\ \A i \in AllRows : file[i]["Platform"] = Facebook
    /\ file[1]["Campaign_Budget"] = <<"1", "0", "0">>
    /\ file[2]["Campaign_Budget"] = <<"3", "0", "0">>

ScenarioResult ==
    /\ Overall.average_budget = [k |-> "num", num |-> 200, den |-> 1]
    /\ Len(analysis["platform_performance"]) = 1
    /\ analysis["platform_performance"][1].key = Str(Facebook)
    /\ analysis["platform_performance"][1].agg[<<"Campaign_Budget", "mean">>]
           = [k |-> "num", num |-> 200, den |-> 1]
    /\ analysis["platform_performance"][1].agg[<<"Campaign_Budget", "sum">>]
           = [k |-> "num", num |-> 400, den |-> 1]

\* The statement of C7, the budget total of a table with no budget at all
\* being whenNone.
ReferenceAggregates(whenNone) ==
    /\ IsTotalOf(Overall.total_budget, df["Campaign_Budget"], AllRows, whenNone)
    /\ IsMeanOf(Overall.average_budget, df["Campaign_Budget"], AllRows)
    /\ IsMeanOf(Overall.average_click_rate, df["Ad_Click_Rate"], AllRows)
    /\ IsMeanOf(Overall.average_conversion_rate, df["Conversion_Rate"], AllRows)
    /\ IsMeanOf(Overall.average_retention_rate, df["Customer_Retention_Rate"],
                AllRows)
    /\ EveryGroupedCell(IsAggregateOf)
    /\ IsScenario => ScenarioResult

\* C7 as stated, for a table with at least one line: the aggregates are
\* the reference aggregates over the non-missing values, and a budget
\* column that is entirely missing gives an undefined total as it gives an
\* undefined mean.
C7_TotalUndefinedWhenAllMissing ==
    (Analysed /\ Len(file) >= 1) => ReferenceAggregates(Undefined)

\* C7, amended: the overall metrics and every grouped cell are the sum or
\* the mean of the non-missing values (of the table, of the category); a
\* column that is entirely missing gives an undefined mean, and a budget
\* column that is entirely missing gives the total 0; the two Facebook
\* lines with budgets 100 and 300 give average_budget 200 and one Facebook
\* row with mean 200 and sum 400.
C7_ReferenceAggregates == Analysed => ReferenceAggregates(Zero)

\* C7's case: a table with lines, none of which holds a budget, has been
\* analysed.
C7_Witness ==
    /\ Analysed
    /\ Len(file) = MaxRows
    /\ ValidIn(df["Campaign_Budget"], AllRows) = {}
    /\ Overall.average_budget.k = "nan"
    /\ ValidIn(df["Ad_Click_Rate"], AllRows) = AllRows

\* The numeric texts of the modelled files, each with its value.
Literals ==
    {<<(<<"1", "0", "0">>), 100>>, <<(<<"3", "0", "0">>), 300>>,
     <<(<<"1">>), 1>>, <<(<<"2">>), 2>>, <<(<<"3">>), 3>>, <<(<<"4">>), 4>>,
     <<(<<"5">>), 5>>, <<(<<"7">>), 7>>, <<(<<"-", "1">>), 0 - 1>>}

\* The cell a text is to become: its number, or the missing marker.
Expected(tok) ==
    IF \E l \in Literals : l[1] = tok
    THEN Num((CHOOSE l \in Literals : l[1] = tok)[2])
    ELSE NaN

\* The column c as it is to be after the load.
ExpectedColumn(c) == [i \in AllRows |-> Expected(file[i][c])]

\* The correlation of two columns over the rows in which both hold a
\* value, from plain sums over those rows.
ReferenceCorr(x, y) ==
    LET I  == ValidIn(x, AllRows) \cap ValidIn(y, AllRows)
        n  == Cardinality(I)
        c  == n * DotAt(x, y, I) - SumAt(x, I) * SumAt(y, I)
        vx == n * DotAt(x, x, I) - SumAt(x, I) * SumAt(x, I)
        vy == n * DotAt(y, y, I) - SumAt(y, I) * SumAt(y, I)
    IN  IF n < 2 \/ vx = 0 \/ vy = 0 THEN NoCorr ELSE Coefficient(c, vx, vy)

\* C8: the load raises on no cell of the six numeric columns: a text that
\* does not parse becomes the missing marker and a text that parses
\* becomes its number; the overall sum and means and every correlation
\* are those of the parseable values alone, the missing cells removed.
C8_UnparseableBecomesMissing ==
    /\ pc \notin {"banner", "load"} => Loaded
    /\ Loaded => \A c \in NumericSet : df[c] = ExpectedColumn(c)
    /\ Analysed =>
           /\ IsSumOf(Overall.total_budget, ExpectedColumn("Campaign_Budget"),
                      AllRows)
           /\ IsMeanOf(Overall.average_budget,
                       ExpectedColumn("Campaign_Budget"), AllRows)
           /\ IsMeanOf(Overall.average_click_rate,
                       ExpectedColumn("Ad_Click_Rate"), AllRows)
           /\ IsMeanOf(Overall.average_conversion_rate,
                       ExpectedColumn("Conversion_Rate"), AllRows)
           /\ IsMeanOf(Overall.average_retention_rate,
                       ExpectedColumn("Customer_Retention_Rate"), AllRows)
           /\ \A p \in NumericSet \X NumericSet :
                  analysis["correlation_matrix"][p]
                      = ReferenceCorr(ExpectedColumn(p[1]), ExpectedColumn(p[2]))

\* C8's case: a column with a text that only the coercion rejects beside
\* a number has been loaded and analysed.
C8_Witness ==
    /\ Analysed
    /\ \E c \in NumericSet : \E i, j \in AllRows :
           /\ file[i][c] \notin NaValues
           /\ df[c][i] = NaN
           /\ df[c][j].k = "num"

Matrix == analysis["correlation_matrix"]

Symmetric == \A c1, c2 \in NumericSet : Matrix[<<c1, c2>>] = Matrix[<<c2, c1>>]

One == [k |-> "num", sgn |-> 1, num |-> 1, den |-> 1]

\* The different values a column holds.
ValuesOf(c) == {df[c][i].v : i \in ValidIn(df[c], AllRows)}

\* C9 as stated: the matrix is symmetric and its diagonal is 1.0 for
\* every column with at least two non-missing values, equal or not.
C9_UnitDiagonalWithTwoValues ==
    Analysed =>
        /\ Symmetric
        /\ \A c \in NumericSet :
               Cardinality(ValidIn(df[c], AllRows)) >= 2 => Matrix[<<c, c>>] = One

\* C9, amended: the matrix is symmetric, undefined cells included, and
\* its diagonal is 1.0 for every column that holds at least two different
\* values; for a column whose non-missing values are all equal, or that
\* holds fewer than two, the diagonal is undefined.
C9_SymmetricUnitDiagonal ==
    Analysed =>
        /\ Symmetric
        /\ \A c \in NumericSet :
               IF Cardinality(ValuesOf(c)) >= 2 THEN Matrix[<<c, c>>] = One
               ELSE Matrix[<<c, c>>] = NoCorr

\* C9's case: a table with a column of two equal values, a column of two
\* different values and a defined off-diagonal cell has been analysed.
C9_Witness ==
    /\ Analysed
    /\ \E c \in NumericSet :
           /\ Cardinality(ValidIn(df[c], AllRows)) >= 2
           /\ Cardinality(ValuesOf(c)) = 1
    /\ \E c1, c2 \in NumericSet :
           /\ c1 # c2
           /\ Matrix[<<c1, c1>>] = One
           /\ Matrix[<<c1, c2>>].k = "num"

---------------------------------------------------------------------------
(* Properties of the loader. *)

\* C10: coercing the coerced table again changes no cell: to_numeric maps
\* every loaded numeric column to itself, and so does the whole loop.
C10_CoercionIdempotent ==
    Loaded =>
        /\ \A c \in NumericSet : to_numeric(df[c]) = df[c]
        /\ CoerceFrom(df, 1) = df

\* C10's case: a column that read_csv left as text has been coerced to a
\* number and a missing marker.
C10_Witness ==
    /\ Loaded
    /\ \E c \in NumericSet :
           /\ \E i \in AllRows : read_csv(file)[c][i].k = "str"
           /\ \E i \in AllRows : df[c][i].k = "num"
           /\ \E i \in AllRows : df[c][i].k = "nan"

=============================================================================
